---- MODULE Spec2Model ----
(***************************************************************************)
(* Model of the example time-based scanner (example/main.go).  The file    *)
(* holds two variants of the same program: variant 1 logs configuration    *)
(* errors and goes on, variant 2 exits with status 1 on them.              *)
(*                                                                         *)
(* Strings are sequences of one-character strings, except that the digest  *)
(* prefix "sha256:" and a digest's hex part are single tokens.  Durations  *)
(* and ages are whole seconds.                                             *)
(***************************************************************************)
EXTENDS Integers, Sequences, FiniteSets, TLC

VARIABLES variant, cfgFile, pc, c, loadErr, maxAge, allImages, digests,
          walked, nonCompliant, failedImages, walkErr, retNonCompliant,
          retFailed, attributed, calls

vars == <<variant, cfgFile, pc, c, loadErr, maxAge, allImages, digests,
          walked, nonCompliant, failedImages, walkErr, retNonCompliant,
          retFailed, attributed, calls>>

(***************************************************************************)
(* Bounds of the model.                                                    *)
(***************************************************************************)
MaxImages == 2
MaxFiles == 2

(***************************************************************************)
(* Durations.                                                              *)
(***************************************************************************)
\* time.Hour, in seconds
Hour == 60 * 60

\* var maxAge time.Duration = 7 * 24 * time.Hour
DefaultMaxAge == 7 * 24 * Hour

Digits == <<"0", "1", "2", "3", "4", "5", "6", "7", "8", "9">>

IsDigit(ch) == \E i \in 1..Len(Digits) : Digits[i] = ch

DigitValue(ch) == (CHOOSE i \in 1..Len(Digits) : Digits[i] = ch) - 1

\* time.unitMap, restricted to the units a whole number of seconds can hold
unitMap == [u \in {<<"s">>, <<"m">>, <<"h">>} |->
              IF u = <<"s">> THEN 1 ELSE IF u = <<"m">> THEN 60 ELSE Hour]

\* leadingInt: the longest prefix of digits, as <<value, rest>>
RECURSIVE leadingInt(_, _)
leadingInt(s, x) ==
    IF s # <<>> /\ IsDigit(Head(s))
    THEN leadingInt(Tail(s), x * 10 + DigitValue(Head(s)))
    ELSE <<x, s>>

\* the unit: everything up to the next digit, as <<unit, rest>>
RECURSIVE leadingUnit(_, _)
leadingUnit(s, u) ==
    IF s # <<>> /\ ~IsDigit(Head(s))
    THEN leadingUnit(Tail(s), Append(u, Head(s)))
    ELSE <<u, s>>

\* the loop of time.ParseDuration: ([0-9]+[a-z]+)+ ; on any error the result is 0
RECURSIVE parseLoop(_, _)
parseLoop(s, d) ==
    IF s = <<>> THEN [d |-> d, err |-> FALSE]
    ELSE IF ~IsDigit(Head(s)) THEN [d |-> 0, err |-> TRUE]
    ELSE LET n == leadingInt(s, 0)
             u == leadingUnit(n[2], <<>>)
         IN  IF u[1] = <<>> THEN [d |-> 0, err |-> TRUE]
             ELSE IF u[1] \notin DOMAIN unitMap THEN [d |-> 0, err |-> TRUE]
             ELSE parseLoop(u[2], d + n[1] * unitMap[u[1]])

ParseDuration(s) ==
    IF s = <<>> THEN [d |-> 0, err |-> TRUE]
    ELSE IF s = <<"0">> THEN [d |-> 0, err |-> FALSE]
    ELSE parseLoop(s, 0)

(***************************************************************************)
(* The configuration file.                                                 *)
(***************************************************************************)
Str168h == <<"1", "6", "8", "h">>
Str1h == <<"1", "h">>
Str7d == <<"7", "d">>
StrAbc == <<"a", "b", "c">>

\* the maxAge strings a scanner block may carry
MaxAgeStrings == {Str168h, Str1h, StrAbc, <<>>}

\* the scanner block: YAML that does not parse, YAML without the maxAge key,
\* or YAML with it
ScannerBlocks ==
    {[valid |-> FALSE, hasMaxAge |-> FALSE, maxAge |-> <<>>],
     [valid |-> TRUE, hasMaxAge |-> FALSE, maxAge |-> <<>>]}
    \cup {[valid |-> TRUE, hasMaxAge |-> TRUE, maxAge |-> s] : s \in MaxAgeStrings}

\* the file: missing, readable but not YAML, readable without a scanner
\* block, readable with one
ConfigFiles ==
    {[readable |-> FALSE, yamlOK |-> FALSE, hasBlock |-> FALSE,
      block |-> [valid |-> FALSE, hasMaxAge |-> FALSE, maxAge |-> <<>>]],
     [readable |-> TRUE, yamlOK |-> FALSE, hasBlock |-> FALSE,
      block |-> [valid |-> FALSE, hasMaxAge |-> FALSE, maxAge |-> <<>>]],
     [readable |-> TRUE, yamlOK |-> TRUE, hasBlock |-> FALSE,
      block |-> [valid |-> FALSE, hasMaxAge |-> FALSE, maxAge |-> <<>>]]}
    \cup {[readable |-> TRUE, yamlOK |-> TRUE, hasBlock |-> TRUE, block |-> b] :
            b \in ScannerBlocks}

\* cfg := Config{MaxAge: "7d"} in variant 1, Config{MaxAge: "168h"} in variant 2
DefaultConfig(v) == [MaxAge |-> IF v = 1 THEN Str7d ELSE Str168h]

\* yaml.Unmarshal(scanCfgBytes, &cfg): a key the document lacks keeps its value
UnmarshalConfig(bytes, cfg) ==
    IF ~bytes.valid THEN [cfg |-> cfg, err |-> TRUE]
    ELSE IF bytes.hasMaxAge THEN [cfg |-> [MaxAge |-> bytes.maxAge], err |-> FALSE]
    ELSE [cfg |-> cfg, err |-> FALSE]

\* []byte("")
EmptyBytes == [valid |-> TRUE, hasMaxAge |-> FALSE, maxAge |-> <<>>]

\* loadConfig: the Config and error it returns, or a nil-pointer panic
loadConfig(v, f) ==
    IF ~f.readable
    THEN [cfg |-> DefaultConfig(v), err |-> TRUE, panic |-> FALSE]
    ELSE IF v = 2 /\ ~f.hasBlock
    THEN [cfg |-> DefaultConfig(v), err |-> FALSE, panic |-> TRUE]
    ELSE LET scanCfgBytes == IF f.hasBlock THEN f.block ELSE EmptyBytes
             r == UnmarshalConfig(scanCfgBytes, DefaultConfig(v))
         IN  [cfg |-> r.cfg, err |-> r.err, panic |-> FALSE]

(***************************************************************************)
(* Images and the content store.                                           *)
(***************************************************************************)
Prefix == "sha256:"

\* the digest lists an image may carry: none, "sha256:d1", "d1", "sha256:d2",
\* "sha256:d1" with "sha256:d2"
DigestLists ==
    {<<>>, <<<<Prefix, "d1">>>>, <<<<"d1">>>>, <<<<Prefix, "d2">>>>,
     <<<<Prefix, "d1">>, <<Prefix, "d2">>>>}

\* unversioned.Image; the i-th image received has ImageID i
ImageLists ==
    UNION {{[i \in 1..n |-> [id |-> i, digests |-> f[i]]] : f \in [1..n -> DigestLists]} :
             n \in 0..MaxImages}

\* ages (time.Since(created)) of the files of the store, in seconds
Ages == {Hour, DefaultMaxAge + 1}

FileNames == {<<"d1">>, <<"d2">>}

\* what the walk hands to its callback: a directory, a file whose Info()
\* fails (its age is never seen), or a file with an age
StoreEntries ==
    {[name |-> <<"d1">>, isDir |-> TRUE, infoOK |-> TRUE, age |-> 0]}
    \cup {[name |-> n, isDir |-> FALSE, infoOK |-> FALSE, age |-> 0] : n \in FileNames}
    \cup {[name |-> n, isDir |-> FALSE, infoOK |-> TRUE, age |-> a] :
             n \in FileNames, a \in Ages}

\* the prefix is left on the key
TrimPrefixKept(s) == s

\* strings.TrimPrefix(dgst, "sha256:")
TrimPrefix(s) == IF s # <<>> /\ Head(s) = Prefix THEN Tail(s) ELSE s

\* a key already present keeps its image
PutIfAbsent(m, key, img) ==
    [k \in DOMAIN m \cup {key} |-> IF k \in DOMAIN m THEN m[k] ELSE img]

\* digests[key] = img
Put(m, key, img) == [k \in DOMAIN m \cup {key} |-> IF k = key THEN img ELSE m[k]]

\* for _, dgst := range img.Digests
RECURSIVE IndexDigests(_, _, _)
IndexDigests(m, img, ds) ==
    IF ds = <<>> THEN m
    ELSE IndexDigests(Put(m, TrimPrefix(Head(ds)), img), img, Tail(ds))

\* every key is filed under the image the loop ends on
RECURSIVE IndexImagesLoopVar(_, _)
IndexImagesLoopVar(m, imgs) ==
    IF imgs = <<>> THEN m
    ELSE IndexImagesLoopVar(IndexDigests(m, imgs[Len(imgs)], Head(imgs).digests),
                            Tail(imgs))

\* for _, img := range allImages
RECURSIVE IndexImages(_, _)
IndexImages(m, imgs) ==
    IF imgs = <<>> THEN m
    ELSE IndexImages(IndexDigests(m, Head(imgs), Head(imgs).digests), Tail(imgs))

\* make(map[string]unversioned.Image)
EmptyMap == [k \in {} |-> 0]

BuildIndex(imgs) == IndexImages(EmptyMap, imgs)

\* the comparison with >= in place of >
TooOldOrEqual(age, limit) == age >= limit

\* time.Since(created) > maxAge
TooOld(age, limit) == age > limit

\* the callback of fs.WalkDir on an entry it could read (err == nil):
\* the two accumulators after it
WalkFn(e, idx, nc, failed, limit) ==
    IF e.isDir THEN [nc |-> nc, failed |-> failed, hit |-> FALSE]
    ELSE IF e.name \notin DOMAIN idx THEN [nc |-> nc, failed |-> failed, hit |-> FALSE]
    ELSE IF ~e.infoOK
    THEN [nc |-> nc, failed |-> Append(failed, idx[e.name]), hit |-> TRUE]
    ELSE IF TooOld(e.age, limit)
    THEN [nc |-> Append(nc, idx[e.name]), failed |-> failed, hit |-> TRUE]
    ELSE [nc |-> nc, failed |-> failed, hit |-> FALSE]

(***************************************************************************)
(* The program.                                                            *)
(***************************************************************************)
NoConfig == [MaxAge |-> <<>>]

Init ==
    /\ variant \in {1, 2}
    /\ cfgFile \in ConfigFiles
    /\ pc = "start"
    /\ c = NoConfig
    /\ loadErr = FALSE
    /\ maxAge = DefaultMaxAge
    /\ allImages = <<>>
    /\ digests = EmptyMap
    /\ walked = <<>>
    /\ nonCompliant = <<>>
    /\ failedImages = <<>>
    /\ walkErr = FALSE
    /\ retNonCompliant = <<>>
    /\ retFailed = <<>>
    /\ attributed = <<>>
    /\ calls = <<>>

\* c, err := loadConfig(*config)
LoadConfig ==
    /\ pc = "start"
    /\ LET r == loadConfig(variant, cfgFile)
       IN  IF r.panic
           THEN pc' = "panic" /\ c' = c /\ loadErr' = loadErr
           ELSE pc' = "loaded" /\ c' = r.cfg /\ loadErr' = r.err
    /\ UNCHANGED <<variant, cfgFile, maxAge, allImages, digests, walked,
                   nonCompliant, failedImages, walkErr, retNonCompliant,
                   retFailed, attributed, calls>>

\* main between loadConfig and the image provider: the error check, then the
\* parse of c.MaxAge into the package variable maxAge
parseMaxAge(v, cfg, err, cur) ==
    IF err /\ v = 2 THEN [maxAge |-> cur, exit |-> TRUE]
    ELSE IF cfg.MaxAge # <<>>
    THEN LET r == ParseDuration(cfg.MaxAge)
         IN  [maxAge |-> r.d, exit |-> r.err /\ v = 2]
    ELSE [maxAge |-> cur, exit |-> FALSE]

SetMaxAge ==
    /\ pc = "loaded"
    /\ LET r == parseMaxAge(variant, c, loadErr, maxAge)
       IN  /\ maxAge' = r.maxAge
           /\ pc' = IF r.exit THEN "exit1" ELSE "configured"
    /\ UNCHANGED <<variant, cfgFile, c, loadErr, allImages, digests, walked,
                   nonCompliant, failedImages, walkErr, retNonCompliant,
                   retFailed, attributed, calls>>

Call(op, ok, nc, failed) == [op |-> op, ok |-> ok, nc |-> nc, failed |-> failed]

\* allImages, err := imageProvider.ReceiveImages()
ReceiveImages ==
    /\ pc = "configured"
    /\ \/ \E imgs \in ImageLists :
            /\ allImages' = imgs
            /\ calls' = Append(calls, Call("receive", TRUE, <<>>, <<>>))
            /\ pc' = "received"
       \/ /\ allImages' = allImages
          /\ calls' = Append(calls, Call("receive", FALSE, <<>>, <<>>))
          /\ pc' = IF variant = 1 THEN "exit0" ELSE "exit1"
    /\ UNCHANGED <<variant, cfgFile, c, loadErr, maxAge, digests, walked,
                   nonCompliant, failedImages, walkErr, retNonCompliant,
                   retFailed, attributed>>

\* scan, up to the call of fs.WalkDir
ScanIndex ==
    /\ pc = "received"
    /\ digests' = BuildIndex(allImages)
    /\ nonCompliant' = <<>>
    /\ failedImages' = <<>>
    /\ pc' = "walking"
    /\ UNCHANGED <<variant, cfgFile, c, loadErr, maxAge, allImages, walked,
                   walkErr, retNonCompliant, retFailed, attributed, calls>>

\* the walk hands one more entry of the store to the callback
WalkFile ==
    /\ pc = "walking"
    /\ Len(walked) < MaxFiles
    /\ \E e \in StoreEntries :
          LET r == WalkFn(e, digests, nonCompliant, failedImages, maxAge)
          IN  /\ walked' = Append(walked, e)
              /\ nonCompliant' = r.nc
              /\ failedImages' = r.failed
              /\ attributed' = IF r.hit
                                THEN Append(attributed,
                                            [name |-> e.name, img |-> digests[e.name]])
                                ELSE attributed
    /\ UNCHANGED <<variant, cfgFile, pc, c, loadErr, maxAge, allImages, digests,
                   walkErr, retNonCompliant, retFailed, calls>>

\* the walk fails and scan returns what it had gathered
WalkErrorKeepsLists ==
    /\ pc = "walking"
    /\ walkErr' = TRUE
    /\ retNonCompliant' = nonCompliant
    /\ retFailed' = failedImages
    /\ calls' = Append(calls, Call("scan", TRUE, nonCompliant, failedImages))
    /\ pc' = "scanned"
    /\ UNCHANGED <<variant, cfgFile, c, loadErr, maxAge, allImages, digests,
                   walked, nonCompliant, failedImages, attributed>>

\* the walk hands an error to the callback, which returns it: the walk ends
\* and scan returns no image as non-compliant and every image as failed
WalkError ==
    /\ pc = "walking"
    /\ walkErr' = TRUE
    /\ retNonCompliant' = <<>>
    /\ retFailed' = allImages
    /\ calls' = Append(calls, Call("scan", TRUE, <<>>, allImages))
    /\ pc' = "scanned"
    /\ UNCHANGED <<variant, cfgFile, c, loadErr, maxAge, allImages, digests,
                   walked, nonCompliant, failedImages, attributed>>

\* the walk ends without an error: scan returns the two accumulators
WalkDone ==
    /\ pc = "walking"
    /\ retNonCompliant' = nonCompliant
    /\ retFailed' = failedImages
    /\ calls' = Append(calls, Call("scan", TRUE, nonCompliant, failedImages))
    /\ pc' = "scanned"
    /\ UNCHANGED <<variant, cfgFile, c, loadErr, maxAge, allImages, digests,
                   walked, nonCompliant, failedImages, walkErr, attributed>>

\* imageProvider.SendImages(nonCompliant, failedImages)
SendImages ==
    /\ pc = "scanned"
    /\ \E ok \in BOOLEAN :
          /\ calls' = Append(calls, Call("send", ok, retNonCompliant, retFailed))
          /\ pc' = IF ok THEN "sent" ELSE IF variant = 1 THEN "exit0" ELSE "exit1"
    /\ UNCHANGED <<variant, cfgFile, c, loadErr, maxAge, allImages, digests,
                   walked, nonCompliant, failedImages, walkErr, retNonCompliant,
                   retFailed, attributed>>

\* Finish is called whatever SendImages returned
FinishAfterFailedSend ==
    /\ pc \in {"sent", "exit0", "exit1"}
    /\ calls # <<>>
    /\ calls[Len(calls)].op = "send"
    /\ \E ok \in BOOLEAN :
          /\ calls' = Append(calls, Call("finish", ok, <<>>, <<>>))
          /\ pc' = IF ok \/ variant = 1 THEN "exit0" ELSE "exit1"
    /\ UNCHANGED <<variant, cfgFile, c, loadErr, maxAge, allImages, digests,
                   walked, nonCompliant, failedImages, walkErr, retNonCompliant,
                   retFailed, attributed>>

\* imageProvider.Finish()
Finish ==
    /\ pc = "sent"
    /\ \E ok \in BOOLEAN :
          /\ calls' = Append(calls, Call("finish", ok, <<>>, <<>>))
          /\ pc' = IF ok \/ variant = 1 THEN "exit0" ELSE "exit1"
    /\ UNCHANGED <<variant, cfgFile, c, loadErr, maxAge, allImages, digests,
                   walked, nonCompliant, failedImages, walkErr, retNonCompliant,
                   retFailed, attributed>>

Next ==
    \/ LoadConfig
    \/ SetMaxAge
    \/ ReceiveImages
    \/ ScanIndex
    \/ WalkFile
    \/ WalkError
    \/ WalkDone
    \/ SendImages
    \/ Finish

Spec == Init /\ [][Next]_vars

(***************************************************************************)
(* scan on its own: main has configured maxAge and received the images.    *)
(***************************************************************************)
\* configuration files that give each threshold main can reach: no file,
\* a scanner block without the key, a scanner block asking for one hour
ScanConfigFiles ==
    {f \in ConfigFiles :
        \/ ~f.readable
        \/ f.hasBlock /\ f.block.valid /\ ~f.block.hasMaxAge
        \/ f.hasBlock /\ f.block.valid /\ f.block.maxAge = Str1h}

ScanInit ==
    /\ variant \in {1, 2}
    /\ cfgFile \in ScanConfigFiles
    /\ LET l == loadConfig(variant, cfgFile)
           r == parseMaxAge(variant, l.cfg, l.err, DefaultMaxAge)
       IN  /\ ~l.panic
           /\ ~r.exit
           /\ c = l.cfg
           /\ loadErr = l.err
           /\ maxAge = r.maxAge
    /\ allImages \in ImageLists
    /\ pc = "received"
    /\ digests = EmptyMap
    /\ walked = <<>>
    /\ nonCompliant = <<>>
    /\ failedImages = <<>>
    /\ walkErr = FALSE
    /\ retNonCompliant = <<>>
    /\ retFailed = <<>>
    /\ attributed = <<>>
    /\ calls = <<Call("receive", TRUE, <<>>, <<>>)>>

ScanNext ==
    \/ ScanIndex
    \/ WalkFile
    \/ WalkError
    \/ WalkDone

ScanSpec == ScanInit /\ [][ScanNext]_vars

(***************************************************************************)
(* Properties.                                                             *)
(***************************************************************************)
Range(seq) == {seq[i] : i \in DOMAIN seq}

\* a digest without its leading "sha256:"
Stripped(d) == IF Len(d) >= 1 /\ d[1] = Prefix THEN SubSeq(d, 2, Len(d)) ELSE d

\* img lists a digest whose stripped form is name
HasDigest(img, name) ==
    \E i \in DOMAIN img.digests : Stripped(img.digests[i]) = name

\* the regular files the walk has met
Files == {e \in Range(walked) : ~e.isDir}

\* the position of the last image of the input that lists name
LastListing(name) ==
    CHOOSE i \in DOMAIN allImages :
        /\ HasDigest(allImages[i], name)
        /\ \A j \in DOMAIN allImages : j > i => ~HasDigest(allImages[j], name)

\* img is the last image of the input that lists name
IsLastListing(img, name) ==
    /\ \E i \in DOMAIN allImages : HasDigest(allImages[i], name)
    /\ img = allImages[LastListing(name)]

\* scan has just returned
ScanReturned == pc = "scanned"

\* C1: when the traversal fails, scan returns every input image as failed and
\* none as non-compliant, whatever the accumulators held.
TraversalFailureAllFailed ==
    (ScanReturned /\ walkErr) =>
        (retNonCompliant = <<>> /\ retFailed = allImages)

\* a failed traversal after both accumulators had received an image
TraversalFailureWitness ==
    /\ ScanReturned
    /\ walkErr
    /\ nonCompliant # <<>>
    /\ failedImages # <<>>
    /\ Len(allImages) = MaxImages

\* C2: no image is in both lists scan returns, and every image in either list
\* is an input image, also for images that own several digests.
ScanResultIsPartition ==
    ScanReturned =>
        /\ Range(retNonCompliant) \cap Range(retFailed) = {}
        /\ Range(retNonCompliant) \subseteq Range(allImages)
        /\ Range(retFailed) \subseteq Range(allImages)

\* C3 as stated: an input image with a digest that names a file older than
\* maxAge is in the non-compliant list.
OldFileImageNonCompliant ==
    ScanReturned =>
        \A img \in Range(allImages) : \A e \in Files :
            (e.infoOK /\ HasDigest(img, e.name) /\ e.age > maxAge)
                => img \in Range(retNonCompliant)

\* C3 as amended: when the traversal succeeds, the last input image that
\* lists a digest naming a file whose creation time can be read and whose age
\* exceeds maxAge is in the non-compliant list.
OldFileLastImageNonCompliant ==
    (ScanReturned /\ ~walkErr) =>
        \A img \in Range(allImages) : \A e \in Files :
            (e.infoOK /\ IsLastListing(img, e.name) /\ e.age > maxAge)
                => img \in Range(retNonCompliant)

\* an old file under a prefixed digest that two images list
OldFileWitness ==
    /\ ScanReturned
    /\ ~walkErr
    /\ Len(allImages) = 2
    /\ \E e \in Files :
          /\ e.infoOK
          /\ e.age > maxAge
          /\ \A i \in 1..2 : <<Prefix>> \o e.name \in Range(allImages[i].digests)
          /\ allImages[2] \in Range(retNonCompliant)

\* the files the index files under img
FilesOf(img) == {e \in Files : e.name \in DOMAIN digests /\ digests[e.name] = img}

\* C4 as stated: an input image with a digest that names a file no older
\* than maxAge is in neither list.
YoungFileImageUntouched ==
    ScanReturned =>
        \A img \in Range(allImages) : \A e \in Files :
            (e.infoOK /\ HasDigest(img, e.name) /\ e.age <= maxAge)
                => (img \notin Range(retNonCompliant) /\ img \notin Range(retFailed))

\* C4 as amended: when the traversal succeeds, an input image with a digest
\* that names a file no older than maxAge is in neither list, unless the index
\* files under it a file that is older or whose metadata cannot be read.
YoungFilesImageUntouched ==
    (ScanReturned /\ ~walkErr) =>
        \A img \in Range(allImages) :
            ( /\ \E e \in Files : e.infoOK /\ HasDigest(img, e.name) /\ e.age <= maxAge
              /\ \A e \in FilesOf(img) : e.infoOK /\ e.age <= maxAge )
                => (img \notin Range(retNonCompliant) /\ img \notin Range(retFailed))

\* a file exactly maxAge old under an image, while another image is reported
YoungFileWitness ==
    /\ ScanReturned
    /\ ~walkErr
    /\ retNonCompliant # <<>>
    /\ \E img \in Range(allImages) :
          /\ \E e \in FilesOf(img) : e.infoOK /\ e.age = maxAge
          /\ \A e \in FilesOf(img) : e.infoOK /\ e.age <= maxAge
          /\ img \notin Range(retNonCompliant)

\* C5: the image indexed under the name of a file whose metadata cannot be
\* read is in the failed list and not in the non-compliant list.
UnreadableFileImageOnlyFailed ==
    ScanReturned =>
        \A e \in Files :
            (~e.infoOK /\ e.name \in DOMAIN digests)
                => /\ digests[e.name] \in Range(retFailed)
                   /\ digests[e.name] \notin Range(retNonCompliant)

\* img has no digest that names a file of the store
NoDigestOnDisk(img) == \A e \in Files : ~HasDigest(img, e.name)

\* C6 as stated: an input image none of whose digests names a file of the
\* store is in neither list.
AbsentImageUntouched ==
    ScanReturned =>
        \A img \in Range(allImages) :
            NoDigestOnDisk(img)
                => (img \notin Range(retNonCompliant) /\ img \notin Range(retFailed))

\* C6 as amended: when the traversal succeeds, an input image none of whose
\* digests names a file of the store is in neither list.
AbsentImageUntouchedOnSuccess ==
    (ScanReturned /\ ~walkErr) =>
        \A img \in Range(allImages) :
            NoDigestOnDisk(img)
                => (img \notin Range(retNonCompliant) /\ img \notin Range(retFailed))

\* an image without digests left out while the other image is reported for
\* a file and a second file matches no image
AbsentImageWitness ==
    /\ ScanReturned
    /\ ~walkErr
    /\ retNonCompliant # <<>>
    /\ \E img \in Range(allImages) :
          /\ img.digests = <<>>
          /\ img \notin Range(retNonCompliant)
          /\ img \notin Range(retFailed)
    /\ \E e \in Files : e.name \notin DOMAIN digests

\* the threshold the configuration file asks for, 168 hours when it asks for none
ExpectedMaxAge ==
    LET b == cfgFile.block
    IN  IF /\ cfgFile.readable
           /\ cfgFile.hasBlock
           /\ b.valid
           /\ b.hasMaxAge
           /\ ~ParseDuration(b.maxAge).err
        THEN ParseDuration(b.maxAge).d
        ELSE DefaultMaxAge

\* C7: scan runs with the configured threshold when the configuration gives
\* a parsable one, and with the 168-hour default otherwise.
ScanThresholdConfiguredOrDefault ==
    pc = "walking" => maxAge = ExpectedMaxAge

\* C8: the provider sees receive, scan, send, finish in this order; send gets
\* the two lists scan returned; nothing follows a failed call.
ProviderCallOrder ==
    LET n == Len(calls)
    IN  /\ n <= 4
        /\ \A i \in 1..n :
              /\ calls[i].op = <<"receive", "scan", "send", "finish">>[i]
              /\ ~calls[i].ok => i = n
        /\ n >= 3 => (calls[3].nc = calls[2].nc /\ calls[3].failed = calls[2].failed)
        /\ pc \in {"received", "walking"} => (n = 1 /\ calls[1].ok)
        /\ (n = 1 /\ ~calls[1].ok) => (digests = EmptyMap /\ walked = <<>>)

\* a complete run that handed non-empty lists to the provider
ProviderCallWitness ==
    /\ Len(calls) = 4
    /\ calls[4].ok
    /\ calls[3].nc # <<>>
    /\ calls[3].failed # <<>>

\* C9: the index maps a digest to the last input image that lists it, and a
\* file is reported only for that image.
LastWriteWins ==
    /\ \A k \in DOMAIN digests : IsLastListing(digests[k], k)
    /\ \A i \in DOMAIN attributed : IsLastListing(attributed[i].img, attributed[i].name)

\* a file reported for the second of two images that list its digest
LastWriteWinsWitness ==
    /\ Len(allImages) = 2
    /\ \E i \in DOMAIN attributed :
          /\ HasDigest(allImages[1], attributed[i].name)
          /\ attributed[i].img = allImages[2]

\* C10: a readable configuration file without a scanner block makes
\* loadConfig return the default Config and no error, in both variants.
NoScannerBlockLoadsDefault ==
    (cfgFile.readable /\ cfgFile.yamlOK /\ ~cfgFile.hasBlock) =>
        /\ pc # "panic"
        /\ pc = "loaded" => (c = DefaultConfig(variant) /\ ~loadErr)

====
